---- MODULE Spec2Model ----
(***************************************************************************)
(* Model of the voice catalogue service of src/main.py: the per-engine     *)
(* voice sources (static dump files and live provider clients), the        *)
(* normalisation with geo data, the 24 hour in-memory cache, the filters   *)
(* and the pagination of the /voices handler.                              *)
(*                                                                         *)
(* Python values are modelled as follows.  A dict is a TLA+ function whose *)
(* domain is its key set, so that a missing key is a missing domain        *)
(* element.  A str that the code looks into (lower(), "in", iteration) is  *)
(* a sequence of one-character strings; an identifier that is only         *)
(* compared or used as a key is a TLA+ string.  None has one value per     *)
(* type of the variable that holds it (None, NoneStr, NoneList,            *)
(* NoneEntry), because TLC compares only values of one type.               *)
(* Floats of the geo table are integers.  Time is counted in hours.        *)
(***************************************************************************)
EXTENDS Integers, Sequences, FiniteSets, TLC

(***************************************************************************)
(* Bounds of the model.                                                    *)
(***************************************************************************)
\* the clock stops advancing here
MaxTime == 24
\* largest page number a request is made with
MaxPage == 3
\* largest page_size a request is made with
MaxPageSize == 3
\* number of concurrent request threads of the concurrent specification
NumThreads == 2

\* timedelta(days=1), in hours
FreshHours == 24

\* hours by which the clock advances in one Tick: half a freshness window, so
\* that an entry is seen at ages below, at and above the window
TickHours == FreshHours \div 2

\* None where the other values are identifiers
None == "None"
\* None where the other values are strings the code looks into
NoneStr == <<"None">>
\* None where the other values are lists of dicts
NoneList == << [none |-> TRUE] >>
\* None where the other values are cache entries
NoneEntry == [none |-> TRUE]
\* a local variable that is read before any assignment to it
Unbound == << [unbound |-> TRUE] >>

(***************************************************************************)
(* Strings the code looks into: sequences of characters.                   *)
(***************************************************************************)
lowerChar(c) ==
    CASE c = "A" -> "a"
      [] c = "E" -> "e"
      [] c = "F" -> "f"
      [] c = "M" -> "m"
      [] c = "U" -> "u"
      [] OTHER -> c

\* str.lower()
lower(s) == [i \in DOMAIN s |-> lowerChar(s[i])]

\* Python's "sub in s" on strings
contains(sub, s) ==
    \E i \in 0..(Len(s) - Len(sub)) : SubSeq(s, i + 1, i + Len(sub)) = sub

\* engine.lower() on the engine identifiers a request is made with
lowerEngine(e) ==
    CASE e = "Polly" -> "polly"
      [] OTHER -> e

Min2(a, b) == IF a < b THEN a ELSE b

(***************************************************************************)
(* fuzzysearch.find_near_matches(sub, s, max_l_dist): the code only tests  *)
(* the result for emptiness, so the model is the existence of a substring  *)
(* of s within Levenshtein distance max_l_dist of sub.                     *)
(***************************************************************************)
RECURSIVE levRow(_, _, _, _, _)
\* one row of the edit-distance table: prev is the row of a[1..i-1], the
\* result the row of a[1..i], built left to right in acc
levRow(prev, ai, b, j, acc) ==
    IF j > Len(b) THEN acc
    ELSE LET cost == IF ai = b[j] THEN 0 ELSE 1
             v == Min2(Min2(prev[j + 1] + 1, acc[j] + 1), prev[j] + cost)
         IN levRow(prev, ai, b, j + 1, Append(acc, v))

RECURSIVE levRows(_, _, _, _)
levRows(a, b, i, prev) ==
    IF i > Len(a) THEN prev
    ELSE levRows(a, b, i + 1, levRow(prev, a[i], b, 1, <<prev[1] + 1>>))

levenshtein(a, b) ==
    levRows(a, b, 1, [j \in 1..(Len(b) + 1) |-> j - 1])[Len(b) + 1]

find_near_matches(sub, s, max_l_dist) ==
    \E i \in 1..(Len(s) + 1) : \E j \in (i - 1)..Len(s) :
        levenshtein(sub, SubSeq(s, i, j)) <= max_l_dist

(***************************************************************************)
(* geo-data.json and find_geo_info.                                        *)
(***************************************************************************)
geo_data ==
    << [language_id |-> "en", latitude |-> 37, longitude |-> -95,
        language |-> <<"E", "n", "g">>],
       [language_id |-> "fr", latitude |-> 46, longitude |-> 2,
        language |-> <<"F", "r", "e">>] >>

Unknown == <<"U", "n", "k", "n", "o", "w", "n">>

find_geo_info(language_code) ==
    LET hits == {i \in DOMAIN geo_data : geo_data[i].language_id = language_code}
    IN IF hits = {}
       THEN [latitude |-> 0, longitude |-> 0, language |-> Unknown]
       ELSE LET i == CHOOSE k \in hits : \A m \in hits : k <= m
            IN [latitude |-> geo_data[i].latitude,
                longitude |-> geo_data[i].longitude,
                language |-> geo_data[i].language]

(***************************************************************************)
(* Raw voice records, as a provider or a dump file gives them.             *)
(***************************************************************************)
rawAmy ==
    [id |-> "v1", name |-> <<"A", "m", "y">>, gender |-> <<"F">>,
     language_codes |-> <<"en">>]
\* no gender key; one language code the geo table does not know
rawLea ==
    [id |-> "v2", name |-> <<"L", "e", "a">>, language_codes |-> <<"fr", "xx">>]
\* a record that carries its own engine key
rawMax ==
    [id |-> "v3", name |-> <<"M", "a", "x">>, gender |-> <<"M">>,
     language_codes |-> <<"en">>, engine |-> "other"]
\* a record that carries a language key (a str: iterating it gives its characters)
rawEva ==
    [id |-> "v4", name |-> <<"E", "v", "a">>, gender |-> <<"F">>,
     language_codes |-> <<"fr">>, language |-> << <<"f">>, <<"r">> >>]

\* the element of a one-element set.  only({e(x) : x \in {v}}) is e(v), with
\* v evaluated once: the model's form of a local variable
only(S) == CHOOSE x \in S : TRUE

(***************************************************************************)
(* Python dicts.                                                           *)
(***************************************************************************)
\* d.get(k, default)
dictGet(d, k, default) == IF k \in DOMAIN d THEN d[k] ELSE default

\* {k: v, **d}: the keys of d win
dictMerge(k, v, d) ==
    [x \in DOMAIN d \cup {k} |-> IF x \in DOMAIN d THEN d[x] ELSE v]

\* d[k] = v on a copy of d
dictSet(d, k, v) ==
    [x \in DOMAIN d \cup {k} |-> IF x = k THEN v ELSE d[x]]

\* bool(x) of a list or None
truthy(x) == x /= NoneList /\ x /= <<>>

\* bool(x) of a str or None, for a str the code looks into
truthyStr(x) == x /= NoneStr /\ x /= <<>>

\* bool(x) of a str or None, for an identifier
truthyId(x) == x /= None /\ x /= ""

(***************************************************************************)
(* The engine registry.  The model keeps the first two of the baseline     *)
(* engines of engines_list and one dump file of ./tts-data.                *)
(***************************************************************************)
baseline_engines == <<"polly", "google">>

\* ./tts-data/<engine>.json, parsed
tts_engines == [espeak |-> <<rawMax>>]

RECURSIVE update_engines_list(_, _)
update_engines_list(list, names) ==
    IF names = {} THEN list
    ELSE LET n == CHOOSE x \in names : TRUE
         IN update_engines_list(
                IF \E i \in DOMAIN list : list[i] = n THEN list ELSE Append(list, n),
                names \ {n})

engines_list == update_engines_list(baseline_engines, DOMAIN tts_engines)

\* the identifiers get_client / get_tts build a client for
client_engines ==
    {"polly", "google", "microsoft", "watson", "elevenlabs", "witai", "sherpaonnx"}

\* get_client(engine): a client, None, or the ValueError of the google branch
\* when GOOGLE_CREDS_JSON / GOOGLE_CREDS_PATH are not set
get_client(engine, google_env) ==
    IF engine = "google" /\ ~google_env THEN [raised |-> "ValueError"]
    ELSE IF engine \in client_engines THEN [raised |-> None, value |-> "client"]
    ELSE [raised |-> None, value |-> None]

\* get_tts without its final "else: return None"
get_tts_any(engine, google_env) ==
    LET client == get_client(engine, google_env)
    IN IF client.raised /= None THEN client
       ELSE [raised |-> None, value |-> "tts"]

\* get_tts(engine): a tts object, None, or the exception of get_client
get_tts(engine, google_env) ==
    LET client == get_client(engine, google_env)
    IN IF client.raised /= None THEN client
       ELSE IF engine \in client_engines THEN [raised |-> None, value |-> "tts"]
       ELSE [raised |-> None, value |-> None]

(***************************************************************************)
(* What a provider's tts.get_voices() does when called: it raises, or it   *)
(* returns one of these lists of raw records.                              *)
(***************************************************************************)
Raises == << [raises |-> TRUE] >>

provider_lists ==
    { <<>>, <<rawAmy, rawLea>> }

provider_outcomes == provider_lists \cup {Raises}

\* the record load_voices_from_source puts in place of a failed fetch
error_voice(engine) ==
    [id |-> "error", language_codes |-> <<>>,
     name |-> <<"E", "r", "r", "o", "r">>, engine |-> engine]

\* lines 86-93: the languages list of one voice, and the voice with it
add_geo(voice) ==
    dictSet(voice, "languages",
            [i \in DOMAIN dictGet(voice, "language_codes", <<>>) |->
                only({ [language_code |-> voice.language_codes[i],
                        latitude |-> g.latitude, longitude |-> g.longitude,
                        language |-> g.language]
                       : g \in {find_geo_info(voice.language_codes[i])} })])

\* lines 71 and 77: {"engine": engine, **item}
tag_engine(engine, item) == dictMerge("engine", engine, item)

(***************************************************************************)
(* load_voices_from_source(engine).  outcome is what the provider's        *)
(* get_voices would do if called.  The result says whether the function    *)
(* raised, the list it returned, and whether the provider was called.      *)
(***************************************************************************)
load_voices_from_source(engine, outcome, google_env) ==
    IF engine \in DOMAIN tts_engines
    THEN only({ [raised |-> None, provider_called |-> FALSE,
                 voices |-> [i \in DOMAIN voices |-> add_geo(voices[i])]] :
                voices \in { [i \in DOMAIN tts_engines[engine] |->
                                 tag_engine(engine, tts_engines[engine][i])] } })
    ELSE only({
        IF tts.raised /= None
        THEN [raised |-> tts.raised, provider_called |-> FALSE]
        ELSE IF tts.value = None
        THEN [raised |-> "HTTPException400", provider_called |-> FALSE]
        ELSE only({ [raised |-> None, provider_called |-> TRUE,
                     voices |-> [i \in DOMAIN voices |-> add_geo(voices[i])]] :
                    voices \in { IF outcome = Raises
                                 THEN <<error_voice(engine)>>
                                 ELSE [i \in DOMAIN outcome |->
                                          tag_engine(engine, outcome[i])] } })
        : tts \in {get_tts(engine, google_env)} })

(***************************************************************************)
(* The cache: a dict from engine to {"data", "timestamp"}.                 *)
(***************************************************************************)
\* lines 182-185, the dict built from voices and datetime.now()
cache_entry(voices, t) == [data |-> voices, timestamp |-> t]

\* a store that updates the data of an entry in place and leaves its timestamp
cache_store_in_place(c, engine, entry) ==
    IF engine \in DOMAIN c
    THEN dictSet(c, engine, [data |-> entry.data, timestamp |-> c[engine].timestamp])
    ELSE dictSet(c, engine, entry)

\* line 182, cache[engine] = <the dict built>: one store of a reference
cache_store(c, engine, entry) == dictSet(c, engine, entry)

cache_voices(c, engine, voices, t) ==
    cache_store(c, engine, cache_entry(voices, t))

\* line 189 with <= for <
fresh_late(cached_data, t) ==
    cached_data /= NoneEntry /\ (t - cached_data.timestamp) <= FreshHours

\* line 189, on the entry read by cache.get(engine)
fresh(cached_data, t) ==
    cached_data /= NoneEntry /\ (t - cached_data.timestamp) < FreshHours

get_cached_voices(c, engine, t) ==
    LET cached_data == dictGet(c, engine, NoneEntry)
    IN IF fresh(cached_data, t) THEN cached_data.data ELSE NoneList

(***************************************************************************)
(* filter_voices.  A list comprehension that raises (a missing key) makes  *)
(* the whole call raise: the result is [raised, voices].                   *)
(***************************************************************************)
RECURSIVE selectSeq(_, _)
\* [v for v in s if v in keep], keep a set of positions of s
selectSeq(s, keep) ==
    IF s = <<>> THEN <<>>
    ELSE LET rest == selectSeq(Tail(s), {i - 1 : i \in keep \ {1}})
         IN IF 1 \in keep THEN <<Head(s)>> \o rest ELSE rest

\* line 173: any(find_near_matches(...) for lang in voice.get('language', ''))
lang_name_matches(voice, lang_name) ==
    LET langs == dictGet(voice, "language", <<>>)
    IN \E i \in DOMAIN langs :
           find_near_matches(lower(lang_name), lower(langs[i]), 1)

by_lang_code(voices, lang_code) ==
    IF ~truthyId(lang_code) THEN [raised |-> None, voices |-> voices]
    ELSE IF \E i \in DOMAIN voices : "language_codes" \notin DOMAIN voices[i]
    THEN [raised |-> "KeyError", voices |-> <<>>]
    ELSE [raised |-> None,
          voices |-> selectSeq(voices, {i \in DOMAIN voices :
                        \E k \in DOMAIN voices[i].language_codes :
                            voices[i].language_codes[k] = lang_code})]

by_lang_name(voices, lang_name) ==
    IF ~truthyStr(lang_name) THEN [raised |-> None, voices |-> voices]
    ELSE [raised |-> None,
          voices |-> selectSeq(voices, {i \in DOMAIN voices :
                        lang_name_matches(voices[i], lang_name)})]

by_name(voices, name) ==
    IF ~truthyStr(name) THEN [raised |-> None, voices |-> voices]
    ELSE IF \E i \in DOMAIN voices : "name" \notin DOMAIN voices[i]
    THEN [raised |-> "KeyError", voices |-> <<>>]
    ELSE [raised |-> None,
          voices |-> selectSeq(voices, {i \in DOMAIN voices :
                        contains(lower(name), lower(voices[i].name))})]

by_gender(voices, gender) ==
    IF ~truthyStr(gender) THEN [raised |-> None, voices |-> voices]
    ELSE IF \E i \in DOMAIN voices : "gender" \notin DOMAIN voices[i]
    THEN [raised |-> "KeyError", voices |-> <<>>]
    ELSE [raised |-> None,
          voices |-> selectSeq(voices, {i \in DOMAIN voices :
                        lower(gender) = lower(voices[i].gender)})]

filter_voices(voices, lang_code, lang_name, name, gender) ==
    only({
      IF f1.raised /= None THEN f1
      ELSE only({
        IF f2.raised /= None THEN f2
        ELSE only({
          IF f3.raised /= None THEN f3 ELSE by_gender(f3.voices, gender)
          : f3 \in {by_name(f2.voices, name)} })
        : f2 \in {by_lang_name(f1.voices, lang_name)} })
      : f1 \in {by_lang_code(voices, lang_code)} })

(***************************************************************************)
(* Pagination, lines 224-229.                                              *)
(***************************************************************************)
\* s[start:end] of Python, for any integers start and end
pySlice(s, start, end) ==
    LET n == Len(s)
        norm(k) == IF k < 0 THEN (IF k + n < 0 THEN 0 ELSE k + n)
                   ELSE (IF k > n THEN n ELSE k)
    IN SubSeq(s, norm(start) + 1, norm(end))

\* a 0-indexed page
page_start_from_zero(page, page_size) == page * page_size

page_start(page, page_size) == (page - 1) * page_size

page_end(start, page_size) == start + page_size

paginate(filtered_voices, page, page_size) ==
    IF page_size = 0 THEN filtered_voices
    ELSE LET start == page_start(page, page_size)
             end == page_end(start, page_size)
         IN pySlice(filtered_voices, start, end)

(***************************************************************************)
(* The Voice model built from a voice dict, line 231: id, name and engine  *)
(* are required, gender defaults to None, keys that are no field of the    *)
(* model are dropped.                                                      *)
(***************************************************************************)
Voice(voice) ==
    [id |-> voice.id, name |-> voice.name,
     gender |-> dictGet(voice, "gender", NoneStr),
     engine |-> voice.engine, languages |-> dictGet(voice, "languages", <<>>)]

validVoice(voice) == {"id", "name", "engine"} \subseteq DOMAIN voice

(***************************************************************************)
(* get_voices, the /voices handler.  src[e] is what the provider of        *)
(* engine e does if its get_voices is called during the request, t the     *)
(* value of datetime.now().  The fetch part gives                          *)
(*   raised          None, or the exception that ends the request          *)
(*   voices          the unfiltered list                                   *)
(*   cache           the cache as the request leaves it                    *)
(*   loads           the engines load_voices_from_source was called for    *)
(*   provider_calls  the engines whose provider get_voices was called      *)
(***************************************************************************)
\* lines 201-203: the load on a miss, and the store of what it returned
load_and_cache(c, t, google_env, engine, ignore_cache, src) ==
    only({
      IF ld.raised /= None
      THEN [raised |-> ld.raised, voices |-> <<>>, cache |-> c,
            loads |-> <<engine>>,
            provider_calls |-> IF ld.provider_called THEN <<engine>> ELSE <<>>]
      ELSE [raised |-> None, voices |-> ld.voices,
            cache |-> IF ~ignore_cache
                      THEN cache_voices(c, engine, ld.voices, t) ELSE c,
            loads |-> <<engine>>,
            provider_calls |-> IF ld.provider_called THEN <<engine>> ELSE <<>>]
      : ld \in {load_voices_from_source(engine, dictGet(src, engine, Raises),
                                        google_env)} })

\* lines 196-203
fetch_one(c, t, google_env, engine, ignore_cache, src) ==
    only({
      IF truthy(voices)
      THEN [raised |-> None, voices |-> voices, cache |-> c,
            loads |-> <<>>, provider_calls |-> <<>>]
      ELSE load_and_cache(c, t, google_env, engine, ignore_cache, src)
      : voices \in {IF ~ignore_cache THEN get_cached_voices(c, engine, t)
                    ELSE <<>>} })

\* lines 206-219, one iteration of the loop for eng; st holds voices, the
\* local eng_voices, the cache, and what was loaded so far
loop_body(st, eng, t, google_env, ignore_cache, src) ==
    only({
      IF eng_voices = Unbound
      THEN [st EXCEPT !.raised = "UnboundLocalError"]
      ELSE IF truthy(eng_voices)
      THEN [st EXCEPT !.eng_voices = eng_voices,
                      !.voices = st.voices \o eng_voices]
      ELSE only({
        IF ld.raised /= None
        THEN \* except Exception: continue
             [st EXCEPT !.eng_voices = eng_voices,
                        !.loads = st.loads \o ld.loads,
                        !.provider_calls = st.provider_calls \o ld.provider_calls]
        ELSE [st EXCEPT !.eng_voices = ld.voices,
                        !.voices = st.voices \o ld.voices,
                        !.cache = ld.cache,
                        !.loads = st.loads \o ld.loads,
                        !.provider_calls = st.provider_calls \o ld.provider_calls]
        : ld \in {load_and_cache(st.cache, t, google_env, eng, ignore_cache, src)} })
      : eng_voices \in {IF ~ignore_cache THEN get_cached_voices(st.cache, eng, t)
                        ELSE st.eng_voices} })

RECURSIVE fetch_loop(_, _, _, _, _, _)
\* lines 205-219: for eng in engines_list, from position i on
fetch_loop(st, i, t, google_env, ignore_cache, src) ==
    IF i > Len(engines_list) \/ st.raised /= None THEN st
    ELSE only({ fetch_loop(next, i + 1, t, google_env, ignore_cache, src)
                : next \in {loop_body(st, engines_list[i], t, google_env,
                                      ignore_cache, src)} })

fetch_all(c, t, google_env, ignore_cache, src) ==
    only({ [raised |-> st.raised, voices |-> st.voices, cache |-> st.cache,
            loads |-> st.loads, provider_calls |-> st.provider_calls]
           : st \in {fetch_loop([raised |-> None, voices |-> <<>>,
                                 eng_voices |-> Unbound, cache |-> c,
                                 loads |-> <<>>, provider_calls |-> <<>>],
                                1, t, google_env, ignore_cache, src)} })

\* line 196: if engine
fetch(c, t, google_env, engine, ignore_cache, src) ==
    IF truthyId(engine)
    THEN fetch_one(c, t, google_env, lowerEngine(engine), ignore_cache, src)
    ELSE fetch_all(c, t, google_env, ignore_cache, src)

\* the HTTP status an exception of the handler is answered with
status_of(raised) ==
    IF raised = None THEN 200
    ELSE IF raised = "HTTPException400" THEN 400
    ELSE 500

\* line 231 on the page
to_models(paginated_voices) ==
    IF \E i \in DOMAIN paginated_voices : ~validVoice(paginated_voices[i])
    THEN [raised |-> "ValidationError", body |-> <<>>]
    ELSE [raised |-> None,
          body |-> [i \in DOMAIN paginated_voices |-> Voice(paginated_voices[i])]]

\* lines 221-231 on the fetched list; filtered is the list before pagination
respond(voices, q) ==
    only({
      IF f.raised /= None
      THEN [raised |-> f.raised, body |-> <<>>, filtered |-> <<>>]
      ELSE only({ [raised |-> m.raised, body |-> m.body, filtered |-> f.voices]
                  : m \in {to_models(paginate(f.voices, q.page, q.page_size))} })
      : f \in {filter_voices(voices, q.lang_code, q.lang_name, q.name, q.gender)} })

\* the whole handler: the response, and the cache it leaves
get_voices(c, t, google_env, q, src) ==
    only({
      only({ [status |-> status_of(r.raised), raised |-> r.raised, body |-> r.body,
              unfiltered |-> f.voices, filtered |-> r.filtered, cache |-> f.cache,
              loads |-> f.loads, provider_calls |-> f.provider_calls]
             : r \in {IF f.raised /= None
                      THEN [raised |-> f.raised, body |-> <<>>, filtered |-> <<>>]
                      ELSE respond(f.voices, q)} })
      : f \in {fetch(c, t, google_env, q.engine, q.ignore_cache, src)} })

(***************************************************************************)
(* State.                                                                  *)
(*   cache       the module's cache dict                                   *)
(*   now         datetime.now(), in hours                                  *)
(*   google_env  whether GOOGLE_CREDS_JSON and GOOGLE_CREDS_PATH are set   *)
(*   resp        the latest request and its response, with what the        *)
(*               request found and did (history, for the properties)       *)
(*   thr         the request threads of the concurrent specification: the  *)
(*               position of each in the handler and its local variables   *)
(*   writes      the entries built by cache_voices so far (history)        *)
(***************************************************************************)
VARIABLES cache, now, google_env, resp, thr, writes

vars == <<cache, now, google_env, resp, thr, writes>>

Threads == 1..NumThreads

idle_thread ==
    [pc |-> "start", cached_data |-> NoneEntry, voices |-> NoneList,
     entry |-> NoneEntry]

emptyDict == [k \in {} |-> None]

\* the defaults of the handler's parameters, line 194
DefaultPage == 1
DefaultPageSize == 50

default_query ==
    [engine |-> None, lang_code |-> None, lang_name |-> NoneStr, name |-> NoneStr,
     gender |-> NoneStr, page |-> DefaultPage, page_size |-> DefaultPageSize,
     ignore_cache |-> FALSE]

restrict(d, keys) == [k \in DOMAIN d \cap keys |-> d[k]]

range(s) == {s[i] : i \in DOMAIN s}

\* one request: the handler runs on the cache and the clock; its response is
\* recorded with the entry it found for its engine (prior; NoneEntry in an
\* all-engines request) and the outcomes of the providers it called
Serve(q, src) ==
    \E r \in {get_voices(cache, now, google_env, q, src)} :
       /\ cache' = r.cache
       /\ resp' = [seq |-> 1 - resp.seq, q |-> q, t |-> now,
                   prior |-> IF truthyId(q.engine)
                             THEN dictGet(cache, lowerEngine(q.engine), NoneEntry)
                             ELSE NoneEntry,
                   src |-> restrict(src, range(r.provider_calls)),
                   status |-> r.status, raised |-> r.raised, body |-> r.body,
                   unfiltered |-> r.unfiltered, filtered |-> r.filtered,
                   loads |-> r.loads, provider_calls |-> r.provider_calls]
       /\ UNCHANGED <<now, google_env, thr, writes>>

Init ==
    /\ cache = emptyDict
    /\ now = 0
    /\ google_env \in BOOLEAN
    /\ resp = [seq |-> 0, q |-> default_query, t |-> 0, prior |-> NoneEntry,
               src |-> emptyDict, status |-> 0, raised |-> None, body |-> <<>>,
               unfiltered |-> <<>>, filtered |-> <<>>,
               loads |-> <<>>, provider_calls |-> <<>>]
    /\ thr = [i \in Threads |-> idle_thread]
    /\ writes = {}

\* the engine identifiers single-engine requests are made with: known ones
\* (one of them not in lower case) and one that is no engine
engine_inputs == {"Polly", "google", "espeak", "bogus"}

\* GET /voices?engine=...&ignore_cache=..., other parameters at their defaults
RequestEngine ==
    \E engine \in engine_inputs, ignore_cache \in BOOLEAN,
       outcome \in provider_outcomes :
        Serve([default_query EXCEPT !.engine = engine,
                                    !.ignore_cache = ignore_cache],
              [e \in {lowerEngine(engine)} |-> outcome])

\* GET /voices?ignore_cache=..., other parameters at their defaults
RequestAll ==
    \E ignore_cache \in BOOLEAN, src \in [range(engines_list) \cap client_engines -> provider_outcomes] :
        Serve([default_query EXCEPT !.ignore_cache = ignore_cache], src)

\* time passes
Tick ==
    /\ now + TickHours <= MaxTime
    /\ now' = now + TickHours
    /\ UNCHANGED <<cache, google_env, resp, thr, writes>>

Next == RequestEngine \/ RequestAll \/ Tick

Spec == Init /\ [][Next]_vars

(***************************************************************************)
(* Requests that exercise the filters and the pagination: single-engine    *)
(* requests with ignore_cache=true, so that the list filtered is the one   *)
(* the provider returns.                                                   *)
(***************************************************************************)
query_lists ==
    { <<>>, <<rawAmy>>, <<rawAmy, rawEva, rawMax>>,
      <<rawAmy, rawLea, rawEva, rawMax>> }

lang_code_inputs == {None, "en"}

\* the display name of "en", a name one edit away from it, and a string
\* that is no display name
lang_name_inputs == {NoneStr, <<"E", "n", "g">>, <<"e", "n">>, <<"f", "r">>}

name_inputs == {NoneStr, <<"M">>}

gender_inputs == {NoneStr, <<"f">>}

\* GET /voices?engine=polly&ignore_cache=true with filters, default page
QueryFilter ==
    \E voices_raw \in query_lists, lang_code \in lang_code_inputs,
       lang_name \in lang_name_inputs, name \in name_inputs,
       gender \in gender_inputs :
        Serve([default_query EXCEPT !.engine = "polly", !.ignore_cache = TRUE,
                                    !.lang_code = lang_code, !.lang_name = lang_name,
                                    !.name = name, !.gender = gender],
              [polly |-> voices_raw])

\* GET /voices?engine=polly&ignore_cache=true&page=..&page_size=..
QueryPage ==
    \E voices_raw \in query_lists, name \in name_inputs,
       page \in 0..MaxPage, page_size \in 0..MaxPageSize :
        Serve([default_query EXCEPT !.engine = "polly", !.ignore_cache = TRUE,
                                    !.name = name,
                                    !.page = page, !.page_size = page_size],
              [polly |-> voices_raw])

NextQuery == QueryFilter \/ QueryPage

SpecQuery == Init /\ [][NextQuery]_vars

(***************************************************************************)
(* Concurrent requests.  The handler is a plain def, which the framework   *)
(* runs on a thread pool: NumThreads requests GET /voices?engine=polly     *)
(* (ignore_cache=false) run lines 199-203 interleaved, a step being one    *)
(* access to the shared dict or to the clock, or the load.  The cache may  *)
(* hold an entry of an earlier request when they start.                    *)
(***************************************************************************)
conc_engine == "polly"

InitConc ==
    /\ now = 0
    /\ google_env \in BOOLEAN
    /\ \E first \in provider_outcomes \cup {NoneList} :
           IF first = NoneList
           THEN cache = emptyDict /\ writes = {}
           ELSE LET ld == load_voices_from_source(conc_engine, first, google_env)
                IN /\ cache = cache_voices(emptyDict, conc_engine, ld.voices, 0)
                   /\ writes = {cache_entry(ld.voices, 0)}
    /\ resp = [seq |-> 0, q |-> default_query, t |-> 0, prior |-> NoneEntry,
               src |-> emptyDict, status |-> 0, raised |-> None, body |-> <<>>,
               unfiltered |-> <<>>, filtered |-> <<>>,
               loads |-> <<>>, provider_calls |-> <<>>]
    /\ thr = [i \in Threads |-> idle_thread]

\* line 188: cached_data = cache.get(engine)
T_Get(i) ==
    /\ thr[i].pc = "start"
    /\ thr' = [thr EXCEPT ![i].pc = "check",
                          ![i].cached_data = dictGet(cache, conc_engine, NoneEntry)]
    /\ UNCHANGED <<cache, now, google_env, resp, writes>>

\* lines 189-191 and 200: the freshness test on the entry read, and "if not voices"
T_Check(i) ==
    /\ thr[i].pc = "check"
    /\ LET voices == IF fresh(thr[i].cached_data, now)
                     THEN thr[i].cached_data.data ELSE NoneList
       IN thr' = [thr EXCEPT ![i].voices = voices,
                             ![i].pc = IF truthy(voices) THEN "done" ELSE "load"]
    /\ UNCHANGED <<cache, now, google_env, resp, writes>>

\* line 201: voices = load_voices_from_source(engine)
T_Load(i) ==
    /\ thr[i].pc = "load"
    /\ \E outcome \in provider_outcomes :
           LET ld == load_voices_from_source(conc_engine, outcome, google_env)
           IN thr' = IF ld.raised /= None
                     THEN [thr EXCEPT ![i].pc = "done"]
                     ELSE [thr EXCEPT ![i].pc = "build", ![i].voices = ld.voices]
    /\ UNCHANGED <<cache, now, google_env, resp, writes>>

\* lines 183-185: the dict {"data": voices, "timestamp": datetime.now()} is built
T_Build(i) ==
    /\ thr[i].pc = "build"
    /\ LET entry == cache_entry(thr[i].voices, now)
       IN /\ thr' = [thr EXCEPT ![i].pc = "store", ![i].entry = entry]
          /\ writes' = writes \cup {entry}
    /\ UNCHANGED <<cache, now, google_env, resp>>

\* line 182: cache[engine] = the dict built
T_Store(i) ==
    /\ thr[i].pc = "store"
    /\ cache' = cache_store(cache, conc_engine, thr[i].entry)
    /\ thr' = [thr EXCEPT ![i].pc = "done"]
    /\ UNCHANGED <<now, google_env, resp, writes>>

NextConc ==
    \/ \E i \in Threads : T_Get(i)
    \/ \E i \in Threads : T_Check(i)
    \/ \E i \in Threads : T_Load(i)
    \/ \E i \in Threads : T_Build(i)
    \/ \E i \in Threads : T_Store(i)
    \/ Tick

SpecConc == InitConc /\ [][NextConc]_vars

(***************************************************************************)
(* Properties of the requests.                                             *)
(***************************************************************************)
\* a request has been served, and resp describes it
Served == resp.status /= 0

SingleEngine(r) == truthyId(r.q.engine)

EngineOf(r) == lowerEngine(r.q.engine)

\* this step serves a request
ServeStep == resp'.seq /= resp.seq

\* C1: once a query for an engine with ignore_cache=false has completed, the
\* next query for that engine with ignore_cache=false, made less than 24
\* hours later, returns the same unfiltered list without loading from the
\* source or calling the provider again, whatever list the source returns
\* (the empty list included).
C1_CachedReadRepeats ==
    [][ ( /\ Served /\ SingleEngine(resp) /\ ~resp.q.ignore_cache
          /\ resp.raised = None
          /\ ServeStep /\ SingleEngine(resp') /\ ~resp'.q.ignore_cache
          /\ EngineOf(resp') = EngineOf(resp)
          /\ resp'.t - resp.t < 24 )
        => ( /\ resp'.raised = None
             /\ resp'.unfiltered = resp.unfiltered
             /\ resp'.loads = <<>>
             /\ resp'.provider_calls = <<>> ) ]_vars

\* the provider of the request's engine was called and raised
ProviderFailed(r, e) ==
    /\ \E i \in DOMAIN r.provider_calls : r.provider_calls[i] = e
    /\ r.src[e] = Raises

\* C2: a single-engine query for an engine without a dump file whose
\* provider get_voices call fails is answered with a server error, and no
\* voice is returned.
C2_ProviderFailureFailsRequest ==
    ( /\ Served /\ SingleEngine(resp)
      /\ EngineOf(resp) \notin DOMAIN tts_engines
      /\ ProviderFailed(resp, EngineOf(resp)) )
    => (resp.status >= 500 /\ resp.body = <<>>)

\* the engines of the list whose fetch failed in the request: the provider
\* raised, or the client could not be built
FailedEngines(r) ==
    {e \in range(r.loads) :
        \/ ProviderFailed(r, e)
        \/ (e \notin DOMAIN tts_engines /\ e \notin range(r.provider_calls))}

\* what engine e adds to an all-engines result when a failed fetch adds
\* nothing: the list of a fresh cache entry, else the list loaded from a
\* source that did not fail
RECURSIVE ConcatOver(_, _, _)
ConcatOver(f, list, i) ==
    IF i > Len(list) THEN <<>> ELSE f[list[i]] \o ConcatOver(f, list, i + 1)

SucceedingLists(c, t, r) ==
    [e \in range(engines_list) |->
        IF ~r.q.ignore_cache /\ truthy(get_cached_voices(c, e, t))
        THEN get_cached_voices(c, e, t)
        ELSE IF e \in FailedEngines(r) THEN <<>>
        ELSE load_voices_from_source(e, dictGet(r.src, e, <<>>), google_env).voices]

\* C3: in an all-engines query in which the fetch of exactly one engine
\* fails, the request succeeds and the unfiltered result is made of the lists
\* of the other engines only: the failing engine adds no entry.
C3_FailingEngineOmitted ==
    [][ ( /\ ServeStep /\ ~SingleEngine(resp')
          /\ Cardinality(FailedEngines(resp')) = 1 )
        => ( /\ resp'.raised = None
             /\ resp'.unfiltered =
                    ConcatOver(SucceedingLists(cache, now, resp'), engines_list, 1)
             /\ \A i \in DOMAIN resp'.unfiltered :
                    resp'.unfiltered[i].engine \notin FailedEngines(resp') ) ]_vars

\* what engine e adds to an all-engines result, a fetch having succeeded
\* when load_voices_from_source returned a list
LoadedLists(c, t, r) ==
    [e \in range(engines_list) |->
        IF ~r.q.ignore_cache /\ truthy(get_cached_voices(c, e, t))
        THEN get_cached_voices(c, e, t)
        ELSE LET ld == load_voices_from_source(e, dictGet(r.src, e, Raises), google_env)
             IN IF ld.raised /= None THEN <<>> ELSE ld.voices]

\* C4: an all-engines query, with either value of ignore_cache, returns as
\* its unfiltered result the concatenation in engines_list order of the
\* lists of the engines whose fetch succeeded, each once; with
\* ignore_cache=true each list is the one loaded in the request.
C4_AllEnginesConcatenation ==
    [][ ( ServeStep /\ ~SingleEngine(resp') )
        => ( /\ resp'.raised = None
             /\ resp'.unfiltered =
                    ConcatOver(LoadedLists(cache, now, resp'), engines_list, 1)
             /\ (resp'.q.ignore_cache =>
                    \A i \in DOMAIN engines_list :
                        \E k \in DOMAIN resp'.loads :
                            resp'.loads[k] = engines_list[i]) ) ]_vars

\* C5: every voice cached under key e, and every voice that
\* load_voices_from_source(e) returned to a request, has engine = e.
C5_EngineFieldIsKey ==
    /\ \A e \in DOMAIN cache : \A i \in DOMAIN cache[e].data :
           cache[e].data[i].engine = e
    /\ (Served /\ SingleEngine(resp) /\ resp.loads /= <<>>) =>
           \A i \in DOMAIN resp.unfiltered :
               resp.unfiltered[i].engine = EngineOf(resp)

\* an identifier with neither a dump file nor a client constructor
Unsupported(e) == e \notin DOMAIN tts_engines /\ e \notin client_engines

\* C6: a query for an engine with neither a dump file nor a client
\* constructor is answered 400, calls no provider and leaves the cache as
\* it was.
C6_UnsupportedEngineRejected ==
    [][ ( ServeStep /\ SingleEngine(resp') /\ Unsupported(EngineOf(resp')) )
        => ( /\ resp'.status = 400
             /\ resp'.provider_calls = <<>>
             /\ cache' = cache ) ]_vars

C6_Witness ==
    Served /\ resp.q.engine = "bogus" /\ resp.status = 400 /\ cache /= emptyDict

\* C7: an entry written at time T is a miss of get_cached_voices from T + 24h
\* on and a hit before; a query with ignore_cache=false that finds such a
\* stale entry loads from the source again and replaces the entry as a whole.
C7_FreshnessExpiry ==
    /\ \A e \in DOMAIN cache :
           get_cached_voices(cache, e, now) =
               IF now >= cache[e].timestamp + 24 THEN NoneList ELSE cache[e].data
    /\ ( /\ Served /\ SingleEngine(resp) /\ ~resp.q.ignore_cache
         /\ resp.prior /= NoneEntry
         /\ resp.t >= resp.prior.timestamp + 24 )
       => ( /\ resp.loads = <<EngineOf(resp)>>
            /\ EngineOf(resp) \in DOMAIN cache
            /\ cache[EngineOf(resp)] =
                   [data |-> resp.unfiltered, timestamp |-> resp.t] )

C7_Witness ==
    /\ Served /\ SingleEngine(resp) /\ ~resp.q.ignore_cache
    /\ resp.prior /= NoneEntry
    /\ resp.prior.data /= <<>>
    /\ resp.t >= resp.prior.timestamp + 24
    /\ resp.loads /= <<>>
    /\ resp.unfiltered /= resp.prior.data

\* a voice one of whose languages entries has a display name within edit
\* distance 1 of the query, case-insensitively
NearDisplayName(voice, lang_name) ==
    \E k \in DOMAIN voice.languages :
        levenshtein(lower(lang_name), lower(voice.languages[k].language)) <= 1

\* C8: the lang_name filter keeps exactly the voices with a languages entry
\* whose display name is within edit distance 1 of the query.
C8_LangNameFilter ==
    ( /\ Served /\ resp.raised = None
      /\ truthyStr(resp.q.lang_name)
      /\ ~truthyId(resp.q.lang_code) /\ ~truthyStr(resp.q.name)
      /\ ~truthyStr(resp.q.gender) )
    => resp.filtered =
           selectSeq(resp.unfiltered,
                     {i \in DOMAIN resp.unfiltered :
                         NearDisplayName(resp.unfiltered[i], resp.q.lang_name)})

Max2(a, b) == IF a > b THEN a ELSE b

\* C9: for page >= 1 and page_size >= 0 the response holds the whole
\* filtered list when page_size = 0, and otherwise the elements at the
\* zero-based positions [(page-1)*page_size, min(n, (page-1)*page_size +
\* page_size)) in order; a page past the end is empty, and no error.
C9_Pagination ==
    ( /\ Served /\ resp.q.page >= 1 /\ resp.q.page_size >= 0
      /\ resp.q.ignore_cache
      /\ filter_voices(resp.unfiltered, resp.q.lang_code, resp.q.lang_name,
                       resp.q.name, resp.q.gender).raised = None )
    => LET n == Len(resp.filtered)
           lo == (resp.q.page - 1) * resp.q.page_size
           hi == Min2(n, lo + resp.q.page_size)
       IN /\ resp.status = 200
          /\ IF resp.q.page_size = 0
             THEN resp.body = [i \in DOMAIN resp.filtered |-> Voice(resp.filtered[i])]
             ELSE /\ Len(resp.body) = Max2(0, hi - lo)
                  /\ \A i \in DOMAIN resp.body :
                         resp.body[i] = Voice(resp.filtered[lo + i])

\* the last, partial page of a list of four
C9_Witness ==
    /\ Served /\ resp.status = 200
    /\ Len(resp.filtered) = 4
    /\ resp.q.page = 2 /\ resp.q.page_size = 3
    /\ Len(resp.body) = 1

\* the threads that stored an entry
Stored(i) == thr[i].pc = "done" /\ thr[i].entry /= NoneEntry

\* C10: under every interleaving of requests for one engine, what a request
\* reads from the cache for the engine is no entry or one complete entry (a
\* list with the timestamp of the cache_voices call that wrote the list),
\* and when all requests have completed and one of them stored, the entry
\* is the complete entry of one of them.
C10_NoTornEntry ==
    /\ \A i \in Threads :
           thr[i].cached_data = NoneEntry \/ thr[i].cached_data \in writes
    /\ conc_engine \in DOMAIN cache => cache[conc_engine] \in writes
    /\ ( /\ \A i \in Threads : thr[i].pc = "done"
         /\ \E i \in Threads : Stored(i) )
       => ( /\ conc_engine \in DOMAIN cache
            /\ \E i \in Threads :
                   /\ Stored(i)
                   /\ cache[conc_engine] = thr[i].entry
                   /\ cache[conc_engine].data = thr[i].voices )

\* two requests raced: both missed, loaded different lists at different
\* times and stored, the second over the first
C10_Witness ==
    /\ \A i \in Threads : Stored(i)
    /\ \E i, j \in Threads :
           /\ thr[i].entry.data /= thr[j].entry.data
           /\ thr[i].entry.timestamp /= thr[j].entry.timestamp
           /\ thr[i].cached_data /= NoneEntry
           /\ cache[conc_engine] = thr[j].entry

====
